---- MODULE Spec2Model ----
(***************************************************************************)
(* A model of two pieces of the ReactPhysics3D library:                    *)
(*                                                                         *)
(*   - CapsuleShape (constructor and the two local support functions),     *)
(*   - DynamicsWorld (start / stop / update, the solver configuration,     *)
(*     body and joint registration, the overlapping-pair map).             *)
(*                                                                         *)
(* The `decimal` scalars of the library are modelled by exact fixed-point  *)
(* numbers.  Lengths (radius, half-height, the coordinates of a support    *)
(* point) are integers counting 1/Den of a length unit.  The components of *)
(* a direction vector are integers counting direction units; only          *)
(* directions whose Euclidean length is an integer dividing Den are drawn, *)
(* so that Vector3::getUnit() is computed without rounding.                *)
(***************************************************************************)
EXTENDS Integers, Sequences, FiniteSets, TLC

\* ------------------------------------------------------------------ bounds

\* Direction components are drawn from -MaxDir .. MaxDir.
MaxDir == 2

\* Constructor arguments (radius, height) are drawn from -1 .. MaxDim.
MaxDim == 2

\* Denominator of the fixed-point lengths (divisible by 2 and by every
\* direction length that is drawn).
Den == 2 * 2 * 3 * 5

\* MACHINE_EPSILON, in direction units.  One direction unit stands for half
\* a machine epsilon, so that non-zero directions below the threshold exist,
\* as they do for floating-point vectors.
MACHINE_EPSILON == 2

\* Bodies of the stepping model have the handles 0 .. MaxBodies - 1.
MaxBodies == 1

\* Joints have the handles 0 .. MaxJoints - 1.
MaxJoints == 1

\* A body is created at a height in 0 .. MaxHeight above the immovable
\* ground contact.
MaxHeight == 1

\* Body indices of broad-phase pairs are drawn from 0 .. MaxBodyIndex.
MaxBodyIndex == 2

\* Contact points kept per overlapping pair: 0 .. MaxContacts.
MaxContacts == 1

\* setNbIterationsSolver is called with a value in 1 .. MaxIterations.
MaxIterations == 3

\* External impulses applied in the sleep scenario: at most MaxImpulses,
\* each adding a velocity in 1 .. MaxImpulse.
MaxImpulses == 2

MaxImpulse == 2

VARIABLES
    \* ---- build configuration
    NDEBUG,             \* TRUE when <cassert> is compiled with NDEBUG
    \* ---- CapsuleShape
    capState,           \* "none" | "constructed" | "aborted"
    mRadius,            \* CapsuleShape::mRadius      (1/Den units)
    mHalfHeight,        \* CapsuleShape::mHalfHeight  (1/Den units)
    qWith,              \* last call of getLocalSupportPointWithMargin
    qWithout,           \* last call of getLocalSupportPointWithoutMargin
    \* ---- DynamicsWorld
    mTimerRunning,      \* mTimer: the timer is running
    mRigidBodies,       \* function: handle of a registered body -> its state
    mJoints,            \* set of the handles of the registered joints
    mIsGravityOn,
    mIsDeactivationActive,
    mOverlappingPairs,  \* function: registered pair key -> "NULL" or a pair
    nbIterationsContactSolver,      \* mContactSolver's iteration count
    nbIterationsConstraintSolver,   \* mConstraintSolver's iteration count
    isSplitImpulseActive,           \* mContactSolver's flag
    isSolveFrictionAtCenterActive,  \* mContactSolver's flag
    step,               \* position of update(): "idle" | "collision"
    callback,           \* the notification that is running, or "none"
    crashed,            \* the process was ended by a null dereference
    \* ---- history
    lifecycle,          \* "Stopped" | "Running": the last of start() / stop()
    stepBodies,         \* handles registered when the step in progress began
    stepJoints,         \* joints registered when the step in progress began
    lastNbIterations,   \* argument of the last setNbIterationsSolver, or 0
    lastCall,           \* the last entry point called and how it ended
    nbImpulses          \* external impulses applied so far

capsuleVars == <<NDEBUG, capState, mRadius, mHalfHeight, qWith, qWithout>>

bodyVars == <<mRigidBodies, mJoints>>

pairVars == <<mOverlappingPairs, crashed>>

solverVars == <<nbIterationsContactSolver, nbIterationsConstraintSolver,
                isSplitImpulseActive, isSolveFrictionAtCenterActive,
                lastNbIterations>>

stepVars == <<mTimerRunning, lifecycle, step, callback, stepBodies, stepJoints>>

flagVars == <<mIsGravityOn, mIsDeactivationActive, nbImpulses>>

worldVars == <<bodyVars, pairVars, solverVars, stepVars, flagVars, lastCall>>

vars == <<capsuleVars, worldVars>>

\* ------------------------------------------------------------- Vector3

Vector3(x, y, z) == <<x, y, z>>

VAdd(a, b) == <<a[1] + b[1], a[2] + b[2], a[3] + b[3]>>

dot(a, b) == a[1] * b[1] + a[2] * b[2] + a[3] * b[3]

lengthSquare(d) == dot(d, d)

\* Integer square root (the length of a drawn direction is exact).
ISqrt(n) == CHOOSE k \in 0..n : k * k <= n /\ (k + 1) * (k + 1) > n

length(d) == ISqrt(lengthSquare(d))

\* unitDirection * s, for a length s in 1/Den units: (d / |d|) * s.
UnitTimes(d, s) ==
    LET len == length(d)
    IN  <<(d[1] * s) \div len, (d[2] * s) \div len, (d[3] * s) \div len>>

\* The directions that are drawn: integer length, dividing Den.
Directions ==
    {d \in (-MaxDir..MaxDir) \X (-MaxDir..MaxDir) \X (-MaxDir..MaxDir) :
        LET len == length(d)
        IN  /\ len * len = lengthSquare(d)
            /\ (len = 0 \/ Den % len = 0)}

\* -------------------------------------------------------- CapsuleShape

NoQuery == [called |-> FALSE, d |-> <<0, 0, 0>>, p |-> <<0, 0, 0>>]

\* Faulty variant: the dot products are compared with >= instead of >.
TopHasMaxDotProduct_GE(r, h, direction) ==
    LET topSpherePoint    == VAdd(Vector3(0, h, 0), UnitTimes(direction, r))
        bottomSpherePoint == VAdd(Vector3(0, -h, 0), UnitTimes(direction, r))
    IN  dot(topSpherePoint, direction) >= dot(bottomSpherePoint, direction)

\* The comparison of line 76: the top sphere's support point has the greater
\* dot product with the direction.
TopHasMaxDotProduct(r, h, direction) ==
    LET topSpherePoint    == VAdd(Vector3(0, h, 0), UnitTimes(direction, r))
        bottomSpherePoint == VAdd(Vector3(0, -h, 0), UnitTimes(direction, r))
    IN  dot(topSpherePoint, direction) > dot(bottomSpherePoint, direction)

\* Faulty variant: only the exact zero vector is taken for zero.
IsNotZeroVector_Exact(direction) == lengthSquare(direction) > 0

\* The test of line 61: the direction is not (numerically) the zero vector.
IsNotZeroVector(direction) ==
    lengthSquare(direction) >= MACHINE_EPSILON * MACHINE_EPSILON

\* Faulty variant: the margin is not added to the selected sphere centre.
SupportPointWithMargin_NoMargin(r, h, direction) ==
    IF IsNotZeroVector(direction)
    THEN IF TopHasMaxDotProduct(r, h, direction)
         THEN Vector3(0, h, 0)
         ELSE Vector3(0, -h, 0)
    ELSE Vector3(0, r, 0)

\* CapsuleShape::getLocalSupportPointWithMargin
SupportPointWithMargin(r, h, direction) ==
    IF IsNotZeroVector(direction)
    THEN IF TopHasMaxDotProduct(r, h, direction)
         THEN VAdd(Vector3(0, h, 0), UnitTimes(direction, r))
         ELSE VAdd(Vector3(0, -h, 0), UnitTimes(direction, r))
    ELSE Vector3(0, r, 0)

\* Faulty variant: the Y component is tested with >= instead of >.
SupportPointWithoutMargin_GE(h, direction) ==
    IF direction[2] >= 0 THEN Vector3(0, h, 0) ELSE Vector3(0, -h, 0)

\* CapsuleShape::getLocalSupportPointWithoutMargin
SupportPointWithoutMargin(h, direction) ==
    IF direction[2] > 0 THEN Vector3(0, h, 0) ELSE Vector3(0, -h, 0)

\* The two assertions of the constructor body.
AssertionsHold(radius, height) == radius > 0 /\ height > 0

\* CapsuleShape::CapsuleShape(radius, height).  The member initialisers run
\* first; the assertions of the body abort the process when they are
\* compiled in and fail, and are no code at all under NDEBUG.
Construct(radius, height) ==
    /\ capState = "none"
    /\ IF ~NDEBUG /\ ~AssertionsHold(radius, height)
       THEN /\ capState' = "aborted"
            /\ mRadius' = 0
            /\ mHalfHeight' = 0
       ELSE /\ capState' = "constructed"
            /\ mRadius' = radius * Den
            /\ mHalfHeight' = (height * Den) \div 2
    /\ UNCHANGED <<NDEBUG, qWith, qWithout, worldVars>>

CapsuleShape == \E radius \in -1..MaxDim, height \in -1..MaxDim :
                    Construct(radius, height)

getLocalSupportPointWithMargin ==
    \E direction \in Directions :
        /\ capState = "constructed"
        /\ qWith' = [called |-> TRUE, d |-> direction,
                     p |-> SupportPointWithMargin(mRadius, mHalfHeight, direction)]
        /\ UNCHANGED <<NDEBUG, capState, mRadius, mHalfHeight, qWithout, worldVars>>

getLocalSupportPointWithoutMargin ==
    \E direction \in Directions :
        /\ capState = "constructed"
        /\ qWithout' = [called |-> TRUE, d |-> direction,
                        p |-> SupportPointWithoutMargin(mHalfHeight, direction)]
        /\ UNCHANGED <<NDEBUG, capState, mRadius, mHalfHeight, qWith, worldVars>>

\* No capsule yet.
NoCapsule ==
    /\ capState = "none"
    /\ mRadius = 0
    /\ mHalfHeight = 0
    /\ qWith = NoQuery
    /\ qWithout = NoQuery

\* ------------------------------------------------------- DynamicsWorld

\* Speed a free body gains per time step under the world's gravity.
Gravity == 1

\* A body slower than this is in low motion.
SleepVelocityThreshold == 1

\* A body in low motion for more than this many steps goes to sleep.
TimeBeforeSleep == 1

\* Iteration count both solvers are constructed with.
DefaultNbIterations == 1

BodyIds == 0..(MaxBodies - 1)

JointIds == 0..(MaxJoints - 1)

\* Keys of the overlapping-pair map: ordered pairs of body indices.
PairKeys == {k \in (0..MaxBodyIndex) \X (0..MaxBodyIndex) : k[1] < k[2]}

\* The pair the broad phase reports in the stepping model.
StepPairs == {<<0, 1>>}

\* The two bodies of the sleep scenario.
SleepBodies == {0, 1}

Max(a, b) == IF a >= b THEN a ELSE b

Min(a, b) == IF a <= b THEN a ELSE b

Abs(x) == IF x < 0 THEN -x ELSE x

\* A rigid body at rest at height h over the immovable ground contact.
RigidBody(h) ==
    [pos |-> h, linVel |-> 0, angVel |-> 0, isSleeping |-> FALSE, sleepTime |-> 0]

NullPair == [isNull |-> TRUE, contacts |-> 0]

OverlappingPair(n) == [isNull |-> FALSE, contacts |-> n]

Call(op, ok) == [op |-> op, ok |-> ok]

Without(f, k) == [x \in DOMAIN f \ {k} |-> f[x]]

\* Faulty variant: the deactivation pass never puts a body to sleep.
StepBody_NeverSleeps(b, gravityOn, deactivationOn) ==
    IF b.isSleeping THEN b
    ELSE LET v1   == IF gravityOn THEN b.linVel - Gravity ELSE b.linVel
             v2   == IF b.pos <= 0 THEN Max(v1, 0) ELSE v1
             p2   == IF b.pos < 0 THEN v2 ELSE b.pos + v2
         IN  [pos        |-> p2,
              linVel     |-> v2,
              angVel     |-> b.angVel,
              isSleeping |-> FALSE,
              sleepTime  |-> 0]

\* Steps 3 to 7 of update() for one body: gravity, the contact solver on
\* the immovable contact, integration, the deactivation pass.  A sleeping
\* body is left out of all of them.
StepBody(b, gravityOn, deactivationOn) ==
    IF b.isSleeping THEN b
    ELSE LET v1   == IF gravityOn THEN b.linVel - Gravity ELSE b.linVel
             v2   == IF b.pos <= 0 THEN Max(v1, 0) ELSE v1
             p2   == IF b.pos < 0 THEN v2 ELSE b.pos + v2
             slow == Abs(v2) < SleepVelocityThreshold
                       /\ Abs(b.angVel) < SleepVelocityThreshold
             t2   == IF slow THEN Min(b.sleepTime + 1, TimeBeforeSleep + 1) ELSE 0
         IN  [pos        |-> p2,
              linVel     |-> v2,
              angVel     |-> b.angVel,
              isSleeping |-> deactivationOn /\ t2 > TimeBeforeSleep,
              sleepTime  |-> IF deactivationOn THEN t2 ELSE b.sleepTime]

\* A body woken up (by a new contact or an external impulse).
Awake(b) == [b EXCEPT !.isSleeping = FALSE, !.sleepTime = 0]

\* Faulty variant: stop() leaves the timer running.
stop_TimerKeepsRunning ==
    /\ ~crashed
    /\ lifecycle' = "Stopped"
    /\ lastCall' = Call("stop", TRUE)
    /\ UNCHANGED <<mTimerRunning, step, callback, stepBodies, stepJoints>>
    /\ UNCHANGED <<capsuleVars, bodyVars, pairVars, solverVars, flagVars>>

\* DynamicsWorld::start
start ==
    /\ ~crashed
    /\ mTimerRunning' = TRUE
    /\ lifecycle' = "Running"
    /\ lastCall' = Call("start", TRUE)
    /\ UNCHANGED <<step, callback, stepBodies, stepJoints>>
    /\ UNCHANGED <<capsuleVars, bodyVars, pairVars, solverVars, flagVars>>

\* DynamicsWorld::stop
stop ==
    /\ ~crashed
    /\ mTimerRunning' = FALSE
    /\ lifecycle' = "Stopped"
    /\ lastCall' = Call("stop", TRUE)
    /\ UNCHANGED <<step, callback, stepBodies, stepJoints>>
    /\ UNCHANGED <<capsuleVars, bodyVars, pairVars, solverVars, flagVars>>

\* DynamicsWorld::update, up to the collision detection of the step (a
\* call made while the timer is stopped returns at once).
update ==
    /\ ~crashed
    /\ step = "idle"
    /\ callback = "none"
    /\ IF mTimerRunning
       THEN /\ step' = "collision"
            /\ stepBodies' = DOMAIN mRigidBodies
            /\ stepJoints' = mJoints
            /\ lastCall' = Call("update", TRUE)
       ELSE /\ lastCall' = Call("update", FALSE)
            /\ UNCHANGED <<step, stepBodies, stepJoints>>
    /\ UNCHANGED <<mTimerRunning, lifecycle, callback>>
    /\ UNCHANGED <<capsuleVars, bodyVars, pairVars, solverVars, flagVars>>

\* DynamicsWorld::update, from the end of the collision detection to the
\* end of the step.
updateEnd ==
    /\ ~crashed
    /\ step = "collision"
    /\ callback = "none"
    /\ mRigidBodies' = [b \in DOMAIN mRigidBodies |->
                          StepBody(mRigidBodies[b], mIsGravityOn, mIsDeactivationActive)]
    /\ step' = "idle"
    /\ stepBodies' = {}
    /\ stepJoints' = {}
    /\ lastCall' = Call("updateEnd", TRUE)
    /\ UNCHANGED <<mTimerRunning, lifecycle, callback, mJoints>>
    /\ UNCHANGED <<capsuleVars, pairVars, solverVars, flagVars>>

\* Faulty variant: the world may be changed at any time.
MayMutate_Always == TRUE

\* The world may be changed: no step is in progress.

MayMutate == step = "idle"

\* DynamicsWorld::createRigidBody
createRigidBody(b, h) ==
    /\ ~crashed
    /\ b \notin DOMAIN mRigidBodies
    /\ IF MayMutate
       THEN /\ mRigidBodies' = mRigidBodies @@ (b :> RigidBody(h))
            /\ lastCall' = Call("createRigidBody", TRUE)
       ELSE /\ lastCall' = Call("createRigidBody", FALSE)
            /\ UNCHANGED mRigidBodies
    /\ UNCHANGED <<capsuleVars, mJoints, pairVars, solverVars, stepVars, flagVars>>

\* DynamicsWorld::destroyRigidBody
destroyRigidBody(b) ==
    /\ ~crashed
    /\ b \in DOMAIN mRigidBodies
    /\ IF MayMutate
       THEN /\ mRigidBodies' = Without(mRigidBodies, b)
            /\ lastCall' = Call("destroyRigidBody", TRUE)
       ELSE /\ lastCall' = Call("destroyRigidBody", FALSE)
            /\ UNCHANGED mRigidBodies
    /\ UNCHANGED <<capsuleVars, mJoints, pairVars, solverVars, stepVars, flagVars>>

\* DynamicsWorld::createJoint
createJoint(j) ==
    /\ ~crashed
    /\ j \notin mJoints
    /\ IF MayMutate
       THEN /\ mJoints' = mJoints \cup {j}
            /\ lastCall' = Call("createJoint", TRUE)
       ELSE /\ lastCall' = Call("createJoint", FALSE)
            /\ UNCHANGED mJoints
    /\ UNCHANGED <<capsuleVars, mRigidBodies, pairVars, solverVars, stepVars, flagVars>>

\* DynamicsWorld::destroyJoint
destroyJoint(j) ==
    /\ ~crashed
    /\ j \in mJoints
    /\ IF MayMutate
       THEN /\ mJoints' = mJoints \ {j}
            /\ lastCall' = Call("destroyJoint", TRUE)
       ELSE /\ lastCall' = Call("destroyJoint", FALSE)
            /\ UNCHANGED mJoints
    /\ UNCHANGED <<capsuleVars, mRigidBodies, pairVars, solverVars, stepVars, flagVars>>

\* DynamicsWorld::setIsGratityOn
setIsGratityOn(isGravityOn) ==
    /\ ~crashed
    /\ mIsGravityOn' = isGravityOn
    /\ lastCall' = Call("setIsGratityOn", TRUE)
    /\ UNCHANGED <<mIsDeactivationActive, nbImpulses>>
    /\ UNCHANGED <<capsuleVars, bodyVars, pairVars, solverVars, stepVars>>

\* RigidBody: an external impulse adding the velocity dv to body b.
applyExternalImpulse(b, dv) ==
    /\ ~crashed
    /\ step = "idle"
    /\ b \in DOMAIN mRigidBodies
    /\ nbImpulses < MaxImpulses
    /\ nbImpulses' = nbImpulses + 1
    /\ mRigidBodies' = [mRigidBodies EXCEPT
                          ![b] = [Awake(@) EXCEPT !.linVel = @ + dv]]
    /\ lastCall' = Call("applyExternalImpulse", TRUE)
    /\ UNCHANGED <<mIsGravityOn, mIsDeactivationActive, mJoints>>
    /\ UNCHANGED <<capsuleVars, pairVars, solverVars, stepVars>>

\* DynamicsWorld::setNbIterationsSolver
setNbIterationsSolver(nbIterations) ==
    /\ ~crashed
    /\ nbIterationsContactSolver' = nbIterations
    /\ lastNbIterations' = nbIterations
    /\ lastCall' = Call("setNbIterationsSolver", TRUE)
    /\ UNCHANGED <<nbIterationsConstraintSolver, isSplitImpulseActive,
                   isSolveFrictionAtCenterActive>>
    /\ UNCHANGED <<capsuleVars, bodyVars, pairVars, stepVars, flagVars>>

\* DynamicsWorld::setIsSplitImpulseActive
setIsSplitImpulseActive(isActive) ==
    /\ ~crashed
    /\ isSplitImpulseActive' = isActive
    /\ lastCall' = Call("setIsSplitImpulseActive", TRUE)
    /\ UNCHANGED <<nbIterationsContactSolver, nbIterationsConstraintSolver,
                   isSolveFrictionAtCenterActive, lastNbIterations>>
    /\ UNCHANGED <<capsuleVars, bodyVars, pairVars, stepVars, flagVars>>

\* DynamicsWorld::setIsSolveFrictionAtContactManifoldCenterActive
setIsSolveFrictionAtContactManifoldCenterActive(isActive) ==
    /\ ~crashed
    /\ isSolveFrictionAtCenterActive' = isActive
    /\ lastCall' = Call("setIsSolveFrictionAtContactManifoldCenterActive", TRUE)
    /\ UNCHANGED <<nbIterationsContactSolver, nbIterationsConstraintSolver,
                   isSplitImpulseActive, lastNbIterations>>
    /\ UNCHANGED <<capsuleVars, bodyVars, pairVars, stepVars, flagVars>>

\* DynamicsWorld::notifyAddedOverlappingPair: the pair is created.
notifyAddedOverlappingPair(addedPair) ==
    /\ ~crashed
    /\ callback = "none"
    /\ addedPair \notin DOMAIN mOverlappingPairs
    /\ mOverlappingPairs' = mOverlappingPairs @@ (addedPair :> OverlappingPair(0))
    /\ callback' = "notifyAddedOverlappingPair"
    /\ lastCall' = Call("notifyAddedOverlappingPair", TRUE)
    /\ UNCHANGED <<mTimerRunning, lifecycle, step, stepBodies, stepJoints, crashed>>
    /\ UNCHANGED <<capsuleVars, bodyVars, solverVars, flagVars>>

\* DynamicsWorld::notifyRemovedOverlappingPair: the pair is destroyed.
notifyRemovedOverlappingPair(removedPair) ==
    /\ ~crashed
    /\ callback = "none"
    /\ removedPair \in DOMAIN mOverlappingPairs
    /\ mOverlappingPairs' = Without(mOverlappingPairs, removedPair)
    /\ callback' = "notifyRemovedOverlappingPair"
    /\ lastCall' = Call("notifyRemovedOverlappingPair", TRUE)
    /\ UNCHANGED <<mTimerRunning, lifecycle, step, stepBodies, stepJoints, crashed>>
    /\ UNCHANGED <<capsuleVars, bodyVars, solverVars, flagVars>>

\* DynamicsWorld::notifyNewContact: the contact is added to the manifold of
\* the pair (which holds at most MaxContacts points) and wakes its bodies.
notifyNewContact(pair) ==
    /\ ~crashed
    /\ callback = "none"
    /\ pair \in DOMAIN mOverlappingPairs
    /\ ~mOverlappingPairs[pair].isNull
    /\ mOverlappingPairs' =
          [mOverlappingPairs EXCEPT ![pair].contacts = Min(@ + 1, MaxContacts)]
    /\ mRigidBodies' = [b \in DOMAIN mRigidBodies |->
                          IF b = pair[1] \/ b = pair[2]
                          THEN Awake(mRigidBodies[b]) ELSE mRigidBodies[b]]
    /\ callback' = "notifyNewContact"
    /\ lastCall' = Call("notifyNewContact", TRUE)
    /\ UNCHANGED <<mTimerRunning, lifecycle, step, stepBodies, stepJoints, crashed,
                   mJoints>>
    /\ UNCHANGED <<capsuleVars, solverVars, flagVars>>

\* The notification that is running returns.
callbackReturn ==
    /\ ~crashed
    /\ callback # "none"
    /\ callback' = "none"
    /\ lastCall' = Call("callbackReturn", TRUE)
    /\ UNCHANGED <<mTimerRunning, lifecycle, step, stepBodies, stepJoints>>
    /\ UNCHANGED <<capsuleVars, bodyVars, pairVars, solverVars, flagVars>>

\* std::map::operator[] : the entry of the key, inserted with a null value
\* when the key has none.
MapIndex(m, key) == IF key \in DOMAIN m THEN m ELSE m @@ (key :> NullPair)

\* OverlappingPair::update : the contact cache drops the contacts that are
\* no longer valid and keeps `kept` of them.
PairUpdate(pair, kept) == [pair EXCEPT !.contacts = Min(kept, @)]

\* DynamicsWorld::updateOverlappingPair.  Calling update() through a null
\* pointer is undefined: the process is ended by the fault, or goes on.
updateOverlappingPair(pair, kept, faults) ==
    /\ ~crashed
    /\ LET m == MapIndex(mOverlappingPairs, pair)
       IN  IF m[pair].isNull
           THEN /\ mOverlappingPairs' = m
                /\ crashed' = faults
                /\ lastCall' = Call("updateOverlappingPair", FALSE)
           ELSE /\ mOverlappingPairs' = [m EXCEPT ![pair] = PairUpdate(@, kept)]
                /\ crashed' = crashed
                /\ lastCall' = Call("updateOverlappingPair", TRUE)
    /\ UNCHANGED <<capsuleVars, bodyVars, solverVars, stepVars, flagVars>>

\* DynamicsWorld::DynamicsWorld : the world after construction.
NewWorld ==
    /\ mTimerRunning = FALSE
    /\ mRigidBodies = <<>>
    /\ mJoints = {}
    /\ mIsGravityOn = TRUE
    /\ mIsDeactivationActive = TRUE
    /\ mOverlappingPairs = <<>>
    /\ nbIterationsContactSolver = DefaultNbIterations
    /\ nbIterationsConstraintSolver = DefaultNbIterations
    /\ isSplitImpulseActive = TRUE
    /\ isSolveFrictionAtCenterActive = TRUE
    /\ step = "idle"
    /\ callback = "none"
    /\ crashed = FALSE
    /\ lifecycle = "Stopped"
    /\ stepBodies = {}
    /\ stepJoints = {}
    /\ lastNbIterations = 0
    /\ lastCall = Call("DynamicsWorld", TRUE)
    /\ nbImpulses = 0

\* The world is modelled for one build, with no capsule.
InitBuild ==
    /\ NDEBUG = FALSE
    /\ NoCapsule

\* ---- the world driven through its stepping interface
Init ==
    /\ InitBuild
    /\ NewWorld

Next ==
    \/ start
    \/ stop
    \/ update
    \/ updateEnd
    \/ \E b \in BodyIds, h \in 0..MaxHeight : createRigidBody(b, h)
    \/ \E b \in BodyIds : destroyRigidBody(b)
    \/ \E j \in JointIds : createJoint(j)
    \/ \E j \in JointIds : destroyJoint(j)
    \/ \E on \in BOOLEAN : setIsGratityOn(on)
    \/ \E p \in StepPairs : notifyAddedOverlappingPair(p)
    \/ \E p \in StepPairs : notifyRemovedOverlappingPair(p)
    \/ \E p \in StepPairs : notifyNewContact(p)
    \/ callbackReturn

Spec == Init /\ [][Next]_vars

\* ---- the solver configuration and the overlapping-pair map
NextConfig ==
    \/ \E n \in 1..MaxIterations : setNbIterationsSolver(n)
    \/ \E a \in BOOLEAN : setIsSplitImpulseActive(a)
    \/ \E a \in BOOLEAN : setIsSolveFrictionAtContactManifoldCenterActive(a)
    \/ \E p \in PairKeys : notifyAddedOverlappingPair(p)
    \/ \E p \in PairKeys : notifyRemovedOverlappingPair(p)
    \/ \E p \in PairKeys : notifyNewContact(p)
    \/ \E p \in PairKeys, kept \in 0..MaxContacts, faults \in BOOLEAN :
          updateOverlappingPair(p, kept, faults)
    \/ callbackReturn

SpecConfig == Init /\ [][NextConfig]_vars

\* ---- the sleep scenario: a running world, gravity and deactivation on,
\* two bodies at rest on the immovable contact
InitSleep ==
    /\ InitBuild
    /\ mTimerRunning = TRUE
    /\ lifecycle = "Running"
    /\ mRigidBodies = [b \in SleepBodies |-> RigidBody(0)]
    /\ mJoints = {}
    /\ mIsGravityOn = TRUE
    /\ mIsDeactivationActive = TRUE
    /\ mOverlappingPairs = <<>>
    /\ nbIterationsContactSolver = DefaultNbIterations
    /\ nbIterationsConstraintSolver = DefaultNbIterations
    /\ isSplitImpulseActive = TRUE
    /\ isSolveFrictionAtCenterActive = TRUE
    /\ step = "idle"
    /\ callback = "none"
    /\ crashed = FALSE
    /\ stepBodies = {}
    /\ stepJoints = {}
    /\ lastNbIterations = 0
    /\ lastCall = Call("start", TRUE)
    /\ nbImpulses = 0

NextSleep ==
    \/ update
    \/ updateEnd
    \/ \E b \in SleepBodies, dv \in 1..MaxImpulse : applyExternalImpulse(b, dv)

\* The caller of the scenario keeps calling update(), and a call that has
\* begun runs to its end: both steps are weakly fair.
SpecSleep == InitSleep /\ [][NextSleep]_vars /\ WF_vars(update) /\ WF_vars(updateEnd)

InitCapsule ==
    /\ NDEBUG \in BOOLEAN
    /\ NoCapsule
    /\ NewWorld

NextCapsule ==
    \/ CapsuleShape
    \/ getLocalSupportPointWithMargin
    \/ getLocalSupportPointWithoutMargin

SpecCapsule == InitCapsule /\ [][NextCapsule]_vars

\* ------------------------------------------------ CapsuleShape: properties

\* |d|^2 < eps^2.
BelowEpsilon(d) == lengthSquare(d) < MACHINE_EPSILON * MACHINE_EPSILON

\* The two candidates of getLocalSupportPointWithMargin (lines 66-73).
TopCandidate(r, h, d) == VAdd(Vector3(0, h, 0), UnitTimes(d, r))

BottomCandidate(r, h, d) == VAdd(Vector3(0, -h, 0), UnitTimes(d, r))

\* A with-margin query on a direction that passes the test of line 61 and
\* whose two candidates have the same dot product with it.
TieQuery ==
    /\ capState = "constructed"
    /\ qWith.called
    /\ ~BelowEpsilon(qWith.d)
    /\ dot(TopCandidate(mRadius, mHalfHeight, qWith.d), qWith.d)
         = dot(BottomCandidate(mRadius, mHalfHeight, qWith.d), qWith.d)

\* C3: a capsule object exists only with radius > 0 and height > 0
\* (construction with radius <= 0 or height <= 0 is rejected).
C3_InvalidRejected ==
    capState = "constructed" => (mRadius > 0 /\ mHalfHeight > 0)

\* C4 (as claimed): on a tie between the two candidates, supportWithMargin
\* returns the top-sphere candidate (0,+h,0) + normalize(d)*r.
C4_TieReturnsTop ==
    (TieQuery /\ mRadius > 0 /\ mHalfHeight > 0) => qWith.p = TopCandidate(mRadius, mHalfHeight, qWith.d)

\* C4 (amended): on a tie between the two candidates, supportWithMargin
\* returns the bottom-sphere candidate (0,-h,0) + normalize(d)*r, the one
\* evaluated second; for h # 0 the ties are the directions with zero Y.
C4_TieReturnsBottom ==
    /\ TieQuery => qWith.p = BottomCandidate(mRadius, mHalfHeight, qWith.d)
    /\ (capState = "constructed" /\ qWith.called /\ ~BelowEpsilon(qWith.d)
          /\ mHalfHeight # 0)
         => (TieQuery <=> qWith.d[2] = 0)

C4_Witness ==
    /\ TieQuery
    /\ mRadius > 0
    /\ mHalfHeight > 0
    /\ qWith.d[2] = 0
    /\ qWith.d[1] # 0

C6_WithoutMargin ==
    (capState = "constructed" /\ qWithout.called)
        => /\ qWithout.d[2] > 0  => qWithout.p = Vector3(0, mHalfHeight, 0)
           /\ qWithout.d[2] <= 0 => qWithout.p = Vector3(0, -mHalfHeight, 0)
           /\ mHalfHeight # 0 =>
                (qWithout.p = Vector3(0, mHalfHeight, 0) <=> qWithout.d[2] > 0)

C6_Witness ==
    /\ capState = "constructed"
    /\ qWithout.called
    /\ qWithout.d[2] = 0
    /\ qWithout.d # <<0, 0, 0>>
    /\ mHalfHeight > 0

\* The segment endpoint each function selects, by the branch it takes.
SelectedWithMargin(r, h, d) ==
    IF BelowEpsilon(d) THEN "none"
    ELSE IF TopHasMaxDotProduct(r, h, d) THEN "top" ELSE "bottom"

SelectedWithoutMargin(d) == IF d[2] > 0 THEN "top" ELSE "bottom"

\* supportWithMargin(d) = supportWithoutMargin(d) + normalize(d)*r for the
\* pair of queries held in the state, when both select the same endpoint.
MarginIdentity ==
    (/\ qWith.called
     /\ qWithout.called
     /\ qWith.d = qWithout.d
     /\ SelectedWithMargin(mRadius, mHalfHeight, qWith.d)
          = SelectedWithoutMargin(qWithout.d))
        => qWith.p = VAdd(qWithout.p, UnitTimes(qWith.d, mRadius))

\* C7 (as claimed): for every non-zero d the margin identity holds when both
\* functions select the same endpoint, and supportWithMargin((0,k,0)) is
\* (0,h+r,0), supportWithMargin((0,-k,0)) is (0,-(h+r),0), for k > 0.
C7_MarginIdentityNonZero ==
    (capState = "constructed" /\ qWith.called /\ qWith.d # <<0, 0, 0>>
       /\ mRadius > 0 /\ mHalfHeight > 0)
        => /\ MarginIdentity
           /\ (qWith.d[1] = 0 /\ qWith.d[3] = 0 /\ qWith.d[2] > 0)
                => qWith.p = Vector3(0, mHalfHeight + mRadius, 0)
           /\ (qWith.d[1] = 0 /\ qWith.d[3] = 0 /\ qWith.d[2] < 0)
                => qWith.p = Vector3(0, -(mHalfHeight + mRadius), 0)

\* C7 (amended): the same for every d with |d|^2 >= eps^2; along the axis
\* the result is (0, |h|+r, 0) and (0, -(|h|+r), 0), for k >= eps.
C7_MarginIdentityAboveEpsilon ==
    (capState = "constructed" /\ qWith.called /\ ~BelowEpsilon(qWith.d))
        => /\ MarginIdentity
           /\ (qWith.d[1] = 0 /\ qWith.d[3] = 0 /\ qWith.d[2] > 0)
                => qWith.p = Vector3(0, Abs(mHalfHeight) + mRadius, 0)
           /\ (qWith.d[1] = 0 /\ qWith.d[3] = 0 /\ qWith.d[2] < 0)
                => qWith.p = Vector3(0, -(Abs(mHalfHeight) + mRadius), 0)

C7_Witness ==
    /\ capState = "constructed"
    /\ mRadius > 0
    /\ mHalfHeight > 0
    /\ qWith.called
    /\ qWithout.called
    /\ qWith.d = qWithout.d
    /\ ~BelowEpsilon(qWith.d)
    /\ qWith.d[1] # 0
    /\ qWith.d[2] > 0
    /\ SelectedWithMargin(mRadius, mHalfHeight, qWith.d) = "top"
    /\ SelectedWithoutMargin(qWithout.d) = "top"
    /\ qWith.p = VAdd(qWithout.p, UnitTimes(qWith.d, mRadius))

\* ----------------------------------------------- DynamicsWorld: properties

C2_NoMutationDuringStep ==
    step # "idle" => (DOMAIN mRigidBodies = stepBodies /\ mJoints = stepJoints)

C2_Witness ==
    /\ step = "collision"
    /\ callback = "notifyNewContact"
    /\ lastCall = Call("destroyRigidBody", FALSE)
    /\ stepBodies # {}
    /\ DOMAIN mRigidBodies = stepBodies

AllAsleep == \A b \in DOMAIN mRigidBodies : mRigidBodies[b].isSleeping

Positions == [b \in DOMAIN mRigidBodies |-> mRigidBodies[b].pos]

\* C8: under repeated update() calls the two resting bodies eventually sleep
\* (for good, once no external impulse disturbs them any more), and an
\* update() over sleeping bodies leaves their transforms unchanged.
C8_SleepScenario ==
    /\ <>[]AllAsleep
    /\ [][(AllAsleep /\ (update \/ updateEnd)) => Positions' = Positions]_vars

C8_Witness ==
    /\ AllAsleep
    /\ DOMAIN mRigidBodies = SleepBodies
    /\ step = "collision"
    /\ nbImpulses > 0

\* C9: after any setNbIterationsSolver(n) both the contact solver and the
\* constraint solver iterate n times, n the argument of the last call.
C9_BothSolversUseLastValue ==
    lastNbIterations # 0 =>
        /\ nbIterationsContactSolver = lastNbIterations
        /\ nbIterationsConstraintSolver = lastNbIterations

\* C10: updateOverlappingPair leaves the key set of the overlapping-pair map
\* unchanged and refreshes the cache of an existing, non-null pair only.
C10_UpdateKeepsKeySet ==
    [][lastCall'.op = "updateOverlappingPair"
          => /\ DOMAIN mOverlappingPairs' = DOMAIN mOverlappingPairs
             /\ lastCall'.ok
             /\ ~crashed']_vars

====
